---- MODULE Spec2Model ----
(***************************************************************************)
(* The vault API client of pwv (type caAPI and its methods) as a state     *)
(* machine.  One client object is driven by an arbitrary sequence of calls *)
(* of its six methods; the vault and the network are the environment, and  *)
(* every call draws the reply it gets from a bounded set of replies.       *)
(*                                                                         *)
(* A reply body stands for its bytes.  It is either text that is not JSON  *)
(* (kind "text": the empty body, an HTML error page, a plain password) or  *)
(* a JSON object (kind "json").  encoding/json gives a struct field the    *)
(* zero value both when the member is absent and when it is empty, so a    *)
(* JSON body carries the zero value for every member it does not have.     *)
(***************************************************************************)
EXTENDS Naturals, Sequences, FiniteSets

VARIABLES
    LogonKey,   \* caAPI.LogonKey
    Base,       \* caAPI.Base
    session,    \* history: "none" until a Login returns nil, then "open";
                \* "closed" once a Logout has returned nil
    last,       \* the call that returned last: its inputs, the request it
                \* sent, the reply it got and what it returned
    granted,    \* history: the CyberArkLogonResult of the reply to the most
                \* recent Login that returned nil ("" before the first)
    openBodies  \* history: the response bodies received and not closed

\* One decoding of a timestamp token by caTime.UnmarshalJSON.
VARIABLES
    tsPhase,    \* "idle" (no decoding), "input" (b is given), "done" (returned)
    tsBytes,    \* b, the raw JSON token, a sequence of characters
    tsM,        \* m, the caTime decoded into
    tsErr       \* the error UnmarshalJSON returned

\* One run of the program (func main).
VARIABLES
    pc,                   \* where main is: "idle" (no run), "login",
                          \* "operation", "approve" and "retrieve" (the loops),
                          \* "logout" (main returns, the deferred logout runs),
                          \* "exited"
    flagOperation,        \* *flagOperation
    flagAllowedCorpKeys,  \* *flagAllowedCorpKeys, a sequence of characters
    incomingRequests,     \* incomingRequests.IncomingRequests
    reqs,                 \* reqs.MyRequests
    idx,                  \* the position in the list of the item the loop is at
    calls,                \* history: the ConfirmRequest and GetPassword calls made
    output,               \* what was printed, line by line
    exitCode              \* the exit status, -1 while the process runs

apiVars == <<LogonKey, Base, session, last, granted, openBodies>>
timeVars == <<tsPhase, tsBytes, tsM, tsErr>>
mainVars == <<pc, flagOperation, flagAllowedCorpKeys, incomingRequests, reqs,
              idx, calls, output, exitCode>>
otherVars == <<timeVars, mainVars>>
vars == <<apiVars, otherVars>>

\* ---------------------------------------------------------------- bounds

\* Longest request list a reply carries.
MaxReqs == 2

\* Most response bodies left open that are followed.
MaxOpen == 2

\* Timestamps -MaxT..MaxT are decoded in their bare and their quoted form.
MaxT == 40

\* Longest token taken from all the character sequences.
MaxTokLen == 3

\* ---------------------------------------------------------------- values

Tokens == {"", "tok1", "tok2"}
ErrorCodes == {"", "ITATS004E"}
ErrorMessages == {"", "denied"}
Statuses == {200, 403, 500}
Texts == {"", "<html>", "s3cret"}
Usernames == {"alice"}
Passwords == {"pw"}
Reasons == {"ok"}
\* "%zz" is an invalid URL escape: http.NewRequest rejects a URL holding it.
RequestIDs == {"7_1", "%zz"}
AccountIDs == {"12_3", "%zz"}

RECURSIVE SeqsUpTo(_, _)
SeqsUpTo(S, n) ==
    IF n = 0 THEN {<<>>}
    ELSE LET shorter == SeqsUpTo(S, n - 1)
         IN shorter \cup {Append(s, x) : s \in {t \in shorter : Len(t) = n - 1}, x \in S}

caMyRequest == [AccountID : AccountIDs, Name : {"db"}]
caIncomingRequest == [RequestID : RequestIDs, RequestorUserName : {"ALICE", "bob"}]

TextBody(t) ==
    [kind |-> "text", text |-> t, ErrorCode |-> "", ErrorMessage |-> "",
     CyberArkLogonResult |-> "", MyRequests |-> <<>>, IncomingRequests |-> <<>>]

JsonBody(code, msg, logon, mine, incoming) ==
    [kind |-> "json", text |-> "", ErrorCode |-> code, ErrorMessage |-> msg,
     CyberArkLogonResult |-> logon, MyRequests |-> mine,
     IncomingRequests |-> incoming]

EmptyBody == TextBody("")

\* The message accompanies a code: a body without a code has no message.
ErrorPairs == {<<c, m>> \in ErrorCodes \X ErrorMessages : c = "" => m = ""}

LogonBodies ==
    {TextBody(t) : t \in Texts}
    \cup {JsonBody(e[1], e[2], k, <<>>, <<>>) : e \in ErrorPairs, k \in Tokens}

ConfirmBodies ==
    {TextBody(t) : t \in Texts}
    \cup {JsonBody(e[1], e[2], "", <<>>, <<>>) : e \in ErrorPairs}

\* An error envelope carries no list.
MyRequestsBodies ==
    {TextBody(t) : t \in Texts}
    \cup {JsonBody(e[1], e[2], "", <<>>, <<>>) : e \in ErrorPairs}
    \cup {JsonBody("", "", "", l, <<>>) : l \in SeqsUpTo(caMyRequest, MaxReqs)}

IncomingBodies ==
    {TextBody(t) : t \in Texts}
    \cup {JsonBody(e[1], e[2], "", <<>>, <<>>) : e \in ErrorPairs}
    \cup {JsonBody("", "", "", <<>>, l) : l \in SeqsUpTo(caIncomingRequest, MaxReqs)}

\* What api.Client.Do / Post and ioutil.ReadAll give a call: the transport
\* fails ("fail"), the reply arrives but its body cannot be read ("readfail"),
\* or the reply arrives whole ("ok").
Replies(bodies) ==
    {[outcome |-> "fail", status |-> 0, body |-> EmptyBody]}
    \cup {[outcome |-> "readfail", status |-> s, body |-> EmptyBody] : s \in Statuses}
    \cup {[outcome |-> "ok", status |-> s, body |-> b] : s \in Statuses, b \in bodies}

NoReply == [outcome |-> "none", status |-> 0, body |-> EmptyBody]

\* ---------------------------------------------------------------- errors

Err(kind, code, msg) == [kind |-> kind, code |-> code, msg |-> msg]
Nil == Err("nil", "", "")

NoRet == [cred |-> EmptyBody, mine |-> <<>>, incoming |-> <<>>]

\* ---------------------------------------------------------------- requests

LogonPath == "/PasswordVault/WebServices/auth/Cyberark/CyberArkAuthenticationService.svc/Logon"
LogoffPath == "/PasswordVault/WebServices/auth/Cyberark/CyberArkAuthenticationService.svc/Logoff"
IncomingPath == "/PasswordVault/API/IncomingRequests"
MyRequestsPath == "/PasswordVault/API/MyRequests"
AccountsPath == "/PasswordVault/WebServices/PIMServices.svc/Accounts/"

NoPayload ==
    [kind |-> "none", username |-> "", password |-> "",
     useRadiusAuthentication |-> FALSE, connectionNumber |-> 0, Reason |-> ""]

caLogonRequest(username, password) ==
    [kind |-> "caLogonRequest", username |-> username, password |-> password,
     useRadiusAuthentication |-> FALSE, connectionNumber |-> 1, Reason |-> ""]

caConfirmRequest(reason) ==
    [kind |-> "caConfirmRequest", username |-> "", password |-> "",
     useRadiusAuthentication |-> FALSE, connectionNumber |-> 0, Reason |-> reason]

\* A URL is base + path + id + suffix, plus the encoded query.
URL(base, path, id, suffix, query) ==
    [base |-> base, path |-> path, id |-> id, suffix |-> suffix, query |-> query]

\* http.NewRequest parses the URL and fails on an invalid escape.
ValidURL(url) == url.id # "%zz"

\* A request whose Authorization header is the token behind a "Bearer " prefix.
HTTPRequest_Bearer(method, url, auth, payload) ==
    [method |-> method, url |-> url,
     auth |-> IF auth = <<>> THEN <<>> ELSE <<"Bearer " \o auth[1]>>,
     payload |-> payload]

\* auth holds the values of the Authorization header: <<>> when there is none.
HTTPRequest(method, url, auth, payload) ==
    [method |-> method, url |-> url, auth |-> auth, payload |-> payload]

\* ---------------------------------------------------------------- decoding

\* json.Unmarshal(body, &caLogonResponse{}): all three fields are exported.
Unmarshal_caLogonResponse(body) ==
    [ok |-> body.kind = "json",
     CyberArkLogonResult |-> IF body.kind = "json" THEN body.CyberArkLogonResult ELSE "",
     ErrorCode |-> IF body.kind = "json" THEN body.ErrorCode ELSE "",
     ErrorMessage |-> IF body.kind = "json" THEN body.ErrorMessage ELSE ""]

\* json.Unmarshal(body, &caConfirmResponse{}).
Unmarshal_caConfirmResponse(body) ==
    [ok |-> body.kind = "json",
     ErrorCode |-> IF body.kind = "json" THEN body.ErrorCode ELSE "",
     ErrorMessage |-> IF body.kind = "json" THEN body.ErrorMessage ELSE ""]

\* json.Unmarshal(body, &caMyRequestsResponse{}): errorCode and errorMessage
\* are unexported, and encoding/json never sets an unexported field, whatever
\* its tag says; they keep the zero value.
Unmarshal_caMyRequestsResponse(body) ==
    [ok |-> body.kind = "json",
     errorCode |-> "",
     errorMessage |-> "",
     MyRequests |-> IF body.kind = "json" THEN body.MyRequests ELSE <<>>]

\* json.Unmarshal(body, &caIncomingRequestsResponse{}): the struct has no
\* error fields, so an error member of the body is dropped.
Unmarshal_caIncomingRequestsResponse(body) ==
    [ok |-> body.kind = "json",
     IncomingRequests |-> IF body.kind = "json" THEN body.IncomingRequests ELSE <<>>]

\* ---------------------------------------------------------------- methods

\* What a method call comes to: the token afterwards, the requests it
\* issued, the error and the value it returned.
Out(key, sent, err, ret) == [key |-> key, sent |-> sent, err |-> err, ret |-> ret]

\* Login with the token stored before the error code is looked at.
LoginOutcome_StoresBeforeCheck(key, base, username, password, reply) ==
    LET httpReq == HTTPRequest("POST", URL(base, LogonPath, "", "", ""), <<>>,
                               caLogonRequest(username, password))
        logonResult == Unmarshal_caLogonResponse(reply.body)
    IN  IF reply.outcome = "fail"
        THEN Out(key, <<httpReq>>, Err("TransportError", "", ""), NoRet)
        ELSE IF reply.outcome = "readfail"
        THEN Out(key, <<httpReq>>, Err("TransportError", "", "whoops"), NoRet)
        ELSE IF ~logonResult.ok
        THEN Out(key, <<httpReq>>, Err("DecodeError", "", ""), NoRet)
        ELSE IF logonResult.ErrorCode # ""
        THEN Out(logonResult.CyberArkLogonResult, <<httpReq>>,
                 Err("AuthenticationFailed", logonResult.ErrorCode,
                     logonResult.ErrorMessage), NoRet)
        ELSE Out(logonResult.CyberArkLogonResult, <<httpReq>>, Nil, NoRet)

\* Login that takes the token only from a reply with status 200.
LoginOutcome_NeedsStatus200(key, base, username, password, reply) ==
    LET httpReq == HTTPRequest("POST", URL(base, LogonPath, "", "", ""), <<>>,
                               caLogonRequest(username, password))
        logonResult == Unmarshal_caLogonResponse(reply.body)
    IN  IF reply.outcome = "fail"
        THEN Out(key, <<httpReq>>, Err("TransportError", "", ""), NoRet)
        ELSE IF reply.outcome = "readfail"
        THEN Out(key, <<httpReq>>, Err("TransportError", "", "whoops"), NoRet)
        ELSE IF ~logonResult.ok
        THEN Out(key, <<httpReq>>, Err("DecodeError", "", ""), NoRet)
        ELSE IF logonResult.ErrorCode # ""
        THEN Out(key, <<httpReq>>,
                 Err("AuthenticationFailed", logonResult.ErrorCode,
                     logonResult.ErrorMessage), NoRet)
        ELSE IF reply.status # 200
        THEN Out(key, <<httpReq>>, Nil, NoRet)
        ELSE Out(logonResult.CyberArkLogonResult, <<httpReq>>, Nil, NoRet)

\* caAPI.Login.  json.Marshal of a struct of strings cannot fail, and an
\* invalid URL is reported by Client.Post like a transport failure.
LoginOutcome(key, base, username, password, reply) ==
    LET httpReq == HTTPRequest("POST", URL(base, LogonPath, "", "", ""), <<>>,
                               caLogonRequest(username, password))
        logonResult == Unmarshal_caLogonResponse(reply.body)
    IN  IF reply.outcome = "fail"
        THEN Out(key, <<httpReq>>, Err("TransportError", "", ""), NoRet)
        ELSE IF reply.outcome = "readfail"
        THEN Out(key, <<httpReq>>, Err("TransportError", "", "whoops"), NoRet)
        ELSE IF ~logonResult.ok
        THEN Out(key, <<httpReq>>, Err("DecodeError", "", ""), NoRet)
        ELSE IF logonResult.ErrorCode # ""
        THEN Out(key, <<httpReq>>,
                 Err("AuthenticationFailed", logonResult.ErrorCode,
                     logonResult.ErrorMessage), NoRet)
        ELSE Out(logonResult.CyberArkLogonResult, <<httpReq>>, Nil, NoRet)

\* Logout without the check of the token.
LogoutOutcome_NoGuard(key, base, reply) ==
    LET req == HTTPRequest("POST", URL(base, LogoffPath, "", "", ""), <<key>>,
                           NoPayload)
    IN  IF reply.outcome = "fail"
        THEN Out(key, <<req>>, Err("TransportError", "", ""), NoRet)
        ELSE Out(key, <<req>>, Nil, NoRet)

\* Logout that clears the token once the logoff request went through.
LogoutOutcome_ClearsKey(key, base, reply) ==
    LET req == HTTPRequest("POST", URL(base, LogoffPath, "", "", ""), <<key>>,
                           NoPayload)
    IN  IF key = ""
        THEN Out(key, <<>>, Err("NotAuthenticated", "", "no logon key exists - unable to logout"), NoRet)
        ELSE IF reply.outcome = "fail"
        THEN Out(key, <<req>>, Err("TransportError", "", ""), NoRet)
        ELSE Out("", <<req>>, Nil, NoRet)

\* caAPI.Logout.  The reply is not looked at: only Client.Do's error counts.
LogoutOutcome(key, base, reply) ==
    LET req == HTTPRequest("POST", URL(base, LogoffPath, "", "", ""), <<key>>,
                           NoPayload)
    IN  IF key = ""
        THEN Out(key, <<>>, Err("NotAuthenticated", "", "no logon key exists - unable to logout"), NoRet)
        ELSE IF reply.outcome = "fail"
        THEN Out(key, <<req>>, Err("TransportError", "", ""), NoRet)
        ELSE Out(key, <<req>>, Nil, NoRet)

\* IncomingRequests without the check of the token.
IncomingRequestsOutcome_NoGuard(key, base, reply) ==
    LET httpReq == HTTPRequest("GET",
                               URL(base, IncomingPath, "", "", "expired=false&onlywaiting=true"),
                               <<key>>, NoPayload)
        response == Unmarshal_caIncomingRequestsResponse(reply.body)
    IN  IF reply.outcome \in {"fail", "readfail"}
        THEN Out(key, <<httpReq>>, Err("TransportError", "", ""), NoRet)
        ELSE IF ~response.ok
        THEN Out(key, <<httpReq>>, Err("DecodeError", "", ""), NoRet)
        ELSE Out(key, <<httpReq>>, Nil,
                 [NoRet EXCEPT !.incoming = response.IncomingRequests])

\* caAPI.IncomingRequests.
IncomingRequestsOutcome(key, base, reply) ==
    LET httpReq == HTTPRequest("GET",
                               URL(base, IncomingPath, "", "", "expired=false&onlywaiting=true"),
                               <<key>>, NoPayload)
        response == Unmarshal_caIncomingRequestsResponse(reply.body)
    IN  IF key = ""
        THEN Out(key, <<>>, Err("NotAuthenticated", "", "no logon key exists"), NoRet)
        ELSE IF reply.outcome \in {"fail", "readfail"}
        THEN Out(key, <<httpReq>>, Err("TransportError", "", ""), NoRet)
        ELSE IF ~response.ok
        THEN Out(key, <<httpReq>>, Err("DecodeError", "", ""), NoRet)
        ELSE Out(key, <<httpReq>>, Nil,
                 [NoRet EXCEPT !.incoming = response.IncomingRequests])

\* ConfirmRequest that reads and decodes the body before it looks at the status.
ConfirmRequestOutcome_DecodesFirst(key, base, r, reason, reply) ==
    LET url == URL(base, IncomingPath \o "/", r.RequestID, "/Confirm", "")
        httpReq == HTTPRequest("POST", url, <<key>>, caConfirmRequest(reason))
        confirmResponse == Unmarshal_caConfirmResponse(reply.body)
    IN  IF ~ValidURL(url)
        THEN Out(key, <<>>, Err("RequestError", "", ""), NoRet)
        ELSE IF reply.outcome = "fail"
        THEN Out(key, <<httpReq>>, Err("TransportError", "", ""), NoRet)
        ELSE IF reply.outcome = "readfail"
        THEN Out(key, <<httpReq>>, Err("TransportError", "", ""), NoRet)
        ELSE IF ~confirmResponse.ok
        THEN Out(key, <<httpReq>>, Err("DecodeError", "", ""), NoRet)
        ELSE IF confirmResponse.ErrorCode # ""
        THEN Out(key, <<httpReq>>,
                 Err("RemoteError", confirmResponse.ErrorCode,
                     confirmResponse.ErrorMessage), NoRet)
        ELSE Out(key, <<httpReq>>, Nil, NoRet)

\* caAPI.ConfirmRequest.
ConfirmRequestOutcome(key, base, r, reason, reply) ==
    LET url == URL(base, IncomingPath \o "/", r.RequestID, "/Confirm", "")
        httpReq == HTTPRequest("POST", url, <<key>>, caConfirmRequest(reason))
        confirmResponse == Unmarshal_caConfirmResponse(reply.body)
    IN  IF ~ValidURL(url)
        THEN Out(key, <<>>, Err("RequestError", "", ""), NoRet)
        ELSE IF reply.outcome = "fail"
        THEN Out(key, <<httpReq>>, Err("TransportError", "", ""), NoRet)
        ELSE IF reply.status = 200
        THEN Out(key, <<httpReq>>, Nil, NoRet)
        ELSE IF reply.outcome = "readfail"
        THEN Out(key, <<httpReq>>, Err("TransportError", "", ""), NoRet)
        ELSE IF ~confirmResponse.ok
        THEN Out(key, <<httpReq>>, Err("DecodeError", "", ""), NoRet)
        ELSE IF confirmResponse.ErrorCode # ""
        THEN Out(key, <<httpReq>>,
                 Err("RemoteError", confirmResponse.ErrorCode,
                     confirmResponse.ErrorMessage), NoRet)
        ELSE Out(key, <<httpReq>>, Nil, NoRet)

\* caAPI.MyRequests.
MyRequestsOutcome(key, base, reply) ==
    LET httpReq == HTTPRequest("GET",
                               URL(base, MyRequestsPath, "", "", "expired=false&onlywaiting=false"),
                               <<key>>, NoPayload)
        myReqs == Unmarshal_caMyRequestsResponse(reply.body)
    IN  IF reply.outcome \in {"fail", "readfail"}
        THEN Out(key, <<httpReq>>, Err("TransportError", "", ""), NoRet)
        ELSE IF ~myReqs.ok
        THEN Out(key, <<httpReq>>, Err("DecodeError", "", ""), NoRet)
        ELSE IF myReqs.errorCode # ""
        THEN Out(key, <<httpReq>>,
                 Err("RemoteError", myReqs.errorCode, myReqs.errorMessage), NoRet)
        ELSE Out(key, <<httpReq>>, Nil, [NoRet EXCEPT !.mine = myReqs.MyRequests])

\* caAPI.GetPassword: the body is returned as it came, whatever the status.
GetPasswordOutcome(key, base, req, reply) ==
    LET url == URL(base, AccountsPath, req.AccountID, "/Credentials", "")
        httpReq == HTTPRequest("GET", url, <<key>>, NoPayload)
    IN  IF ~ValidURL(url)
        THEN Out(key, <<>>, Err("RequestError", "", ""), NoRet)
        ELSE IF reply.outcome \in {"fail", "readfail"}
        THEN Out(key, <<httpReq>>, Err("TransportError", "", ""), NoRet)
        ELSE Out(key, <<httpReq>>, Nil, [NoRet EXCEPT !.cred = reply.body])

\* ---------------------------------------------------------------- state machine

NoIncoming == [RequestID |-> "", RequestorUserName |-> ""]
NoMine == [AccountID |-> "", Name |-> ""]
NoArgs ==
    [username |-> "", password |-> "", r |-> NoIncoming, reason |-> "",
     req |-> NoMine]

\* The methods that close the response body when they return
\* (defer httpResponse.Body.Close()).  Logout drops the response unread.
ClosesBody(op) ==
    op \in {"Login", "IncomingRequests", "ConfirmRequest", "MyRequests",
            "GetPassword"}

\* The response bodies a call leaves open: Client.Do and Client.Post hand out
\* a body whenever they return no error.
BodiesLeftOpen(op, out, reply) ==
    IF out.sent # <<>> /\ reply.outcome # "fail" /\ ~ClosesBody(op) THEN 1 ELSE 0

\* A method returns: the token is as the method left it, and the call is
\* recorded with the token and the session it found.
Return(op, args, reply, out) ==
    /\ LogonKey' = out.key
    /\ Base' = Base
    /\ session' = IF op = "Login" /\ out.err = Nil THEN "open"
                  ELSE IF op = "Logout" /\ out.err = Nil THEN "closed"
                  ELSE session
    /\ last' = [op |-> op, args |-> args,
                pre |-> [key |-> LogonKey, session |-> session],
                sent |-> out.sent,
                reply |-> IF out.sent = <<>> THEN NoReply ELSE reply,
                err |-> out.err, ret |-> out.ret]
    /\ granted' = IF op = "Login" /\ out.err = Nil
                  THEN reply.body.CyberArkLogonResult
                  ELSE granted
    /\ openBodies + BodiesLeftOpen(op, out, reply) <= MaxOpen
    /\ openBodies' = openBodies + BodiesLeftOpen(op, out, reply)

\* time.Time{}: the zero Time, which no call of time.Unix here gives.
ZeroTime == [isZero |-> TRUE, sec |-> 0]

\* No timestamp is being decoded.
TimeIdle ==
    /\ tsPhase = "idle"
    /\ tsBytes = <<>>
    /\ tsM = [Time |-> ZeroTime]
    /\ tsErr = Nil

\* The program is not run: the client is driven method by method.
MainIdle ==
    /\ pc = "idle"
    /\ flagOperation = "list"
    /\ flagAllowedCorpKeys = <<>>
    /\ incomingRequests = <<>>
    /\ reqs = <<>>
    /\ idx = 1
    /\ calls = <<>>
    /\ output = <<>>
    /\ exitCode = 0 - 1

\* main: api := caAPI{}; api.Base = *flagBaseURL.
Init ==
    /\ LogonKey = ""
    /\ Base = "https://pwv.europe.intranet"
    /\ session = "none"
    /\ last = [op |-> "new", args |-> NoArgs,
               pre |-> [key |-> "", session |-> "none"],
               sent |-> <<>>, reply |-> NoReply, err |-> Nil, ret |-> NoRet]
    /\ granted = ""
    /\ openBodies = 0
    /\ TimeIdle
    /\ MainIdle

Login(username, password, reply) ==
    /\ Return("Login",
              [NoArgs EXCEPT !.username = username, !.password = password],
              reply, LoginOutcome(LogonKey, Base, username, password, reply))
    /\ UNCHANGED otherVars

Logout(reply) ==
    /\ Return("Logout", NoArgs, reply, LogoutOutcome(LogonKey, Base, reply))
    /\ UNCHANGED otherVars

IncomingRequests(reply) ==
    /\ Return("IncomingRequests", NoArgs, reply,
           IncomingRequestsOutcome(LogonKey, Base, reply))
    /\ UNCHANGED otherVars

ConfirmRequest(r, reason, reply) ==
    /\ Return("ConfirmRequest", [NoArgs EXCEPT !.r = r, !.reason = reason],
           reply, ConfirmRequestOutcome(LogonKey, Base, r, reason, reply))
    /\ UNCHANGED otherVars

MyRequests(reply) ==
    /\ Return("MyRequests", NoArgs, reply, MyRequestsOutcome(LogonKey, Base, reply))
    /\ UNCHANGED otherVars

GetPassword(req, reply) ==
    /\ Return("GetPassword", [NoArgs EXCEPT !.req = req], reply,
           GetPasswordOutcome(LogonKey, Base, req, reply))
    /\ UNCHANGED otherVars

Next ==
    \/ \E u \in Usernames, p \in Passwords, reply \in Replies(LogonBodies) :
          Login(u, p, reply)
    \/ \E reply \in Replies(ConfirmBodies) : Logout(reply)
    \/ \E reply \in Replies(IncomingBodies) : IncomingRequests(reply)
    \/ \E r \in caIncomingRequest, reason \in Reasons, reply \in Replies(ConfirmBodies) :
          ConfirmRequest(r, reason, reply)
    \/ \E reply \in Replies(MyRequestsBodies) : MyRequests(reply)
    \/ \E req \in caMyRequest, reply \in Replies(ConfirmBodies) :
          GetPassword(req, reply)

Spec == Init /\ [][Next]_vars

\* ---------------------------------------------------------------- caTime

Quote == "\""
Digits == <<"0", "1", "2", "3", "4", "5", "6", "7", "8", "9">>
IsDigit(c) == \E d \in DOMAIN Digits : Digits[d] = c
DigitValue(c) == (CHOOSE d \in DOMAIN Digits : Digits[d] = c) - 1

\* strings.TrimLeft(s, cutset) for a cutset of one character.
RECURSIVE TrimLeft(_, _)
TrimLeft(s, c) ==
    IF s # <<>> /\ Head(s) = c THEN TrimLeft(Tail(s), c) ELSE s

\* strings.TrimRight(s, cutset) for a cutset of one character.
RECURSIVE TrimRight(_, _)
TrimRight(s, c) ==
    IF s # <<>> /\ s[Len(s)] = c THEN TrimRight(SubSeq(s, 1, Len(s) - 1), c) ELSE s

\* The value of a run of decimal digits, most significant first.
RECURSIVE ParseDigits(_, _)
ParseDigits(s, acc) ==
    IF s = <<>> THEN acc ELSE ParseDigits(Tail(s), acc * 10 + DigitValue(Head(s)))

\* strconv.Atoi: an optional sign, then one digit or more and nothing else.
\* (The tokens here are far shorter than the 19 digits where int overflows.)
Atoi(s) ==
    LET signed == s # <<>> /\ Head(s) \in {"-", "+"}
        digits == IF signed THEN Tail(s) ELSE s
    IN  IF digits = <<>> \/ \E i \in DOMAIN digits : ~IsDigit(digits[i])
        THEN [ok |-> FALSE, i |-> 0]
        ELSE [ok |-> TRUE,
              i |-> IF signed /\ Head(s) = "-"
                    THEN 0 - ParseDigits(digits, 0)
                    ELSE ParseDigits(digits, 0)]

\* time.Unix(sec, 0): the instant sec seconds from the Unix epoch.
Unix(sec) == [isZero |-> FALSE, sec |-> sec]

\* caTime.UnmarshalJSON with only the leading quotes removed.
UnmarshalJSONOutcome_TrimLeftOnly(time, bytes) ==
    LET i == Atoi(TrimLeft(bytes, Quote))
    IN  IF ~i.ok
        THEN [m |-> time, err |-> Err("MalformedTimestamp", "", "")]
        ELSE [m |-> [Time |-> Unix(i.i)], err |-> Nil]

\* caTime.UnmarshalJSON with the error of strconv.Atoi dropped.
UnmarshalJSONOutcome_IgnoresError(time, bytes) ==
    LET i == Atoi(TrimRight(TrimLeft(bytes, Quote), Quote))
    IN  [m |-> [Time |-> Unix(i.i)], err |-> Nil]

\* caTime.UnmarshalJSON: m.Time is assigned only when the text parses.
UnmarshalJSONOutcome(time, bytes) ==
    LET i == Atoi(TrimRight(TrimLeft(bytes, Quote), Quote))
    IN  IF ~i.ok
        THEN [m |-> time, err |-> Err("MalformedTimestamp", "", "")]
        ELSE [m |-> [Time |-> Unix(i.i)], err |-> Nil]

\* strconv.Itoa, as the vault writes a bare number.
RECURSIVE FormatDigits(_)
FormatDigits(n) ==
    IF n < 10 THEN <<Digits[n + 1]>>
    ELSE Append(FormatDigits(n \div 10), Digits[(n % 10) + 1])

Itoa(n) == IF n < 0 THEN <<"-">> \o FormatDigits(0 - n) ELSE FormatDigits(n)

\* The token of a quoted timestamp.
Quoted(s) == <<Quote>> \o s \o <<Quote>>

Timestamps == (0 - MaxT)..MaxT

TokenChars == {Quote, "-", "+", "0", "1", "7", "x"}

\* The tokens decoded: every timestamp bare and quoted, every short sequence
\* of characters, and a few longer malformed ones.
TimeTokens ==
    {Itoa(T) : T \in Timestamps}
    \cup {Quoted(Itoa(T)) : T \in Timestamps}
    \cup SeqsUpTo(TokenChars, MaxTokLen)
    \cup {<<"n", "u", "l", "l">>, <<"1", ".", "5">>, <<"1", "e", "3">>,
          <<Quote, "1", "2", "a", Quote>>, <<Quote, "1", Quote, "2", Quote>>}

TimeInit ==
    /\ LogonKey = ""
    /\ Base = "https://pwv.europe.intranet"
    /\ session = "none"
    /\ last = [op |-> "new", args |-> NoArgs,
               pre |-> [key |-> "", session |-> "none"],
               sent |-> <<>>, reply |-> NoReply, err |-> Nil, ret |-> NoRet]
    /\ granted = ""
    /\ openBodies = 0
    /\ tsPhase = "input"
    /\ tsBytes \in TimeTokens
    /\ tsM = [Time |-> ZeroTime]
    /\ tsErr = Nil
    /\ MainIdle

UnmarshalJSON ==
    /\ tsPhase = "input"
    /\ LET out == UnmarshalJSONOutcome(tsM, tsBytes)
       IN  /\ tsM' = out.m
           /\ tsErr' = out.err
    /\ tsPhase' = "done"
    /\ UNCHANGED <<tsBytes, apiVars, mainVars>>

TimeNext == UnmarshalJSON

TimeSpec == TimeInit /\ [][TimeNext]_vars

\* The text of a token between its quotes is a base-10 integer: an optional sign
\* and then digits only, at least one.
IsBase10Integer(s) ==
    \E k \in 0..1 :
        /\ Len(s) > k
        /\ (k = 1 => s[1] \in {"-", "+"})
        /\ \A j \in (k + 1)..Len(s) : IsDigit(s[j])

\* C15: for every timestamp T of the bounded set, decoding the quoted token
\* "T" and decoding the bare token T both succeed and give the same instant,
\* Unix second T.
C15_QuotedAndBareAgree ==
    \A T \in Timestamps :
        (tsPhase = "done" /\ tsBytes \in {Itoa(T), Quoted(Itoa(T))})
            => /\ tsErr = Nil
               /\ tsM.Time = Unix(T)

\* A quoted negative timestamp has been decoded.
C15_Witness ==
    /\ tsPhase = "done"
    /\ tsBytes = <<Quote, "-", "1", "7", Quote>>
    /\ tsM.Time = [isZero |-> FALSE, sec |-> 0 - 17]
    /\ tsErr = Nil

\* C17: decoding a token whose text, the surrounding quotes removed, is not
\* a base-10 integer (the empty quoted string included) fails with
\* MalformedTimestamp and assigns no instant.
C17_MalformedTimestampFails ==
    (tsPhase = "done" /\ ~IsBase10Integer(TrimRight(TrimLeft(tsBytes, Quote), Quote)))
        => /\ tsErr.kind = "MalformedTimestamp"
           /\ tsM.Time = ZeroTime

\* The empty quoted string has been decoded, and has failed.
C17_Witness ==
    /\ tsPhase = "done"
    /\ tsBytes = <<Quote, Quote>>
    /\ tsErr.kind = "MalformedTimestamp"
    /\ tsM.Time = ZeroTime


\* ---------------------------------------------------------------- main

\* The letters of the names used, in lower and in upper case.
LowerLetters == <<"a", "b", "c", "e", "i", "l", "o", "r">>
UpperLetters == <<"A", "B", "C", "E", "I", "L", "O", "R">>

\* strings.ToUpper, letter by letter.
ToUpperRune(c) ==
    IF \E k \in DOMAIN LowerLetters : LowerLetters[k] = c
    THEN UpperLetters[CHOOSE k \in DOMAIN LowerLetters : LowerLetters[k] = c]
    ELSE c

ToUpper(str) == [k \in DOMAIN str |-> ToUpperRune(str[k])]

\* strings.Trim(s, " ").
Trim(str) == TrimRight(TrimLeft(str, " "), " ")

\* strings.Split(s, sep): the pieces between the separators, empty ones too.
RECURSIVE Split(_, _)
Split(str, sep) ==
    IF \A k \in DOMAIN str : str[k] # sep
    THEN <<str>>
    ELSE LET k == CHOOSE j \in DOMAIN str :
                      str[j] = sep /\ \A h \in 1..(j - 1) : str[h] # sep
         IN  <<SubSeq(str, 1, k - 1)>> \o Split(SubSeq(str, k + 1, Len(str)), sep)

\* The characters of a requestor name.
Runes(name) ==
    CASE name = "ALICE" -> <<"A", "L", "I", "C", "E">>
      [] name = "bob" -> <<"b", "o", "b">>
      [] OTHER -> <<>>

\* approveIncoming: the users map, its keys trimmed and in upper case.
Users(allowedCorporateKeys) ==
    LET parts == Split(Trim(allowedCorporateKeys), ",")
    IN  {ToUpper(Trim(parts[k])) : k \in DOMAIN parts}

\* approveIncoming with the requestor looked up as it is written.
IsAllowed_AsWritten(users, a) == Runes(a.RequestorUserName) \in users

\* approveIncoming: _, ok := users[strings.ToUpper(a.RequestorUserName)].
IsAllowed(users, a) == ToUpper(Runes(a.RequestorUserName)) \in users

Operations == {"list", "approve", "retrieve", "version"}

AllowFlags ==
    {<<>>, <<" ">>, <<"a", "l", "i", "c", "e">>, <<"B", "o", "b">>, <<"a", "l", "i", "c", "e", ",", "B", "O", "B">>, <<" ", "a", "l", "i", "c", "e", " ", ",", " ", "c", "a", "r", "o", "l">>, <<"c", "a", "r", "o", "l">>}

\* The replies to the call made for one item of a list, and to Logoff.
ItemReplies ==
    {reply \in Replies(ConfirmBodies) :
        /\ reply.outcome \in {"fail", "ok"}
        /\ reply.status \in {0, 200, 403}
        /\ reply.body.text \in {"", "s3cret"}
        /\ reply.body.ErrorMessage = ""}

LogoffReplies ==
    {reply \in Replies({EmptyBody}) : reply.outcome \in {"fail", "ok"}
                                       /\ reply.status \in {0, 200}}

\* One printed line: the stream, what it says, the item it is about and,
\* for a credential, the account name and the password printed.
Line(stream, what, i, name, cred) ==
    [stream |-> stream, what |-> what, i |-> i, name |-> name, cred |-> cred]

Say(what) == Line("stdout", what, 0, "", EmptyBody)

\* One call made for an item of a list.
Call(op, i, out) ==
    [op |-> op, i |-> i, failed |-> out.err # Nil, sent |-> Len(out.sent)]

\* os.Exit(code): the process ends there, deferred calls are not run.
Exit(code) ==
    /\ pc' = "exited"
    /\ exitCode' = code

MainInit ==
    /\ LogonKey = ""
    /\ Base = "https://pwv.europe.intranet"
    /\ session = "none"
    /\ last = [op |-> "new", args |-> NoArgs,
               pre |-> [key |-> "", session |-> "none"],
               sent |-> <<>>, reply |-> NoReply, err |-> Nil, ret |-> NoRet]
    /\ granted = ""
    /\ openBodies = 0
    /\ TimeIdle
    /\ pc = "login"
    /\ flagOperation \in Operations
    /\ flagAllowedCorpKeys \in AllowFlags
    /\ incomingRequests = <<>>
    /\ reqs = <<>>
    /\ idx = 1
    /\ calls = <<>>
    /\ output = <<>>
    /\ exitCode = 0 - 1

\* main: api.Login, and defer logout(&api) once it has returned nil.
MainLogin(username, password, reply) ==
    /\ pc = "login"
    /\ LET out == LoginOutcome(LogonKey, Base, username, password, reply)
       IN  /\ Return("Login",
                     [NoArgs EXCEPT !.username = username, !.password = password],
                     reply, out)
           /\ IF out.err # Nil
              THEN /\ output' = Append(output, Say("Could not login"))
                   /\ Exit(1)
              ELSE /\ pc' = "operation"
                   /\ UNCHANGED <<output, exitCode>>
    /\ UNCHANGED <<flagOperation, flagAllowedCorpKeys, incomingRequests, reqs,
                   idx, calls, timeVars>>

\* The lines listIncoming prints for a list.
IncomingLines(list) ==
    IF list = <<>>
    THEN <<Say("There are no incoming requests.")>>
    ELSE [k \in DOMAIN list |->
            Line("stdout", "Incoming", k, list[k].RequestorUserName, EmptyBody)]

\* listIncoming.
ListIncoming(reply) ==
    /\ pc = "operation"
    /\ flagOperation = "list"
    /\ LET out == IncomingRequestsOutcome(LogonKey, Base, reply)
       IN  /\ Return("IncomingRequests", NoArgs, reply, out)
           /\ incomingRequests' = out.ret.incoming
           /\ IF out.err # Nil
              THEN /\ output' = Append(output, Say("error"))
                   /\ Exit(1)
              ELSE /\ output' = output \o IncomingLines(out.ret.incoming)
                   /\ pc' = "logout"
                   /\ UNCHANGED exitCode
    /\ UNCHANGED <<flagOperation, flagAllowedCorpKeys, reqs, idx, calls, timeVars>>

\* approveIncoming, up to its loop.
ApproveIncoming(reply) ==
    /\ pc = "operation"
    /\ flagOperation = "approve"
    /\ IF Trim(flagAllowedCorpKeys) = <<>>
       THEN /\ output' = Append(output,
                                Line("stderr", "No corporate keys specified", 0, "", EmptyBody))
            /\ Exit(1)
            /\ UNCHANGED <<apiVars, incomingRequests>>
       ELSE LET out == IncomingRequestsOutcome(LogonKey, Base, reply)
            IN  /\ Return("IncomingRequests", NoArgs, reply, out)
                /\ incomingRequests' = out.ret.incoming
                /\ IF out.err # Nil
                   THEN /\ output' = Append(output, Say("error"))
                        /\ Exit(1)
                   ELSE IF out.ret.incoming = <<>>
                   THEN /\ output' = Append(output, Say("There are no incoming requests."))
                        /\ pc' = "logout"
                        /\ UNCHANGED exitCode
                   ELSE /\ pc' = "approve"
                        /\ UNCHANGED <<output, exitCode>>
    /\ UNCHANGED <<flagOperation, flagAllowedCorpKeys, reqs, idx, calls, timeVars>>

\* approveIncoming with the loop left at the first confirmation that fails.
ApproveRequest_StopsOnFailure(reason, reply) ==
    /\ pc = "approve"
    /\ LET a == incomingRequests[idx]
           out == ConfirmRequestOutcome(LogonKey, Base, a, reason, reply)
       IN  IF IsAllowed(Users(flagAllowedCorpKeys), a)
           THEN /\ Return("ConfirmRequest",
                          [NoArgs EXCEPT !.r = a, !.reason = reason], reply, out)
                /\ calls' = Append(calls, Call("ConfirmRequest", idx, out))
                /\ output' = output \o
                     <<Line("stdout", "Confirming", idx, a.RequestorUserName, EmptyBody),
                       IF out.err # Nil
                       THEN Line("stdout", "failed!", idx, "", EmptyBody)
                       ELSE Line("stdout", "ok!", idx, "", EmptyBody)>>
                /\ pc' = IF out.err # Nil \/ idx = Len(incomingRequests)
                         THEN "logout" ELSE "approve"
           ELSE /\ output' = Append(output,
                       Line("stdout", "Ignoring", idx, a.RequestorUserName, EmptyBody))
                /\ pc' = IF idx = Len(incomingRequests) THEN "logout" ELSE "approve"
                /\ UNCHANGED <<apiVars, calls>>
    /\ idx' = idx + 1
    /\ UNCHANGED <<flagOperation, flagAllowedCorpKeys, incomingRequests, reqs,
                   exitCode, timeVars>>

\* approveIncoming: one turn of the loop over incomingRequests.
ApproveRequest(reason, reply) ==
    /\ pc = "approve"
    /\ LET a == incomingRequests[idx]
           out == ConfirmRequestOutcome(LogonKey, Base, a, reason, reply)
       IN  IF IsAllowed(Users(flagAllowedCorpKeys), a)
           THEN /\ Return("ConfirmRequest",
                          [NoArgs EXCEPT !.r = a, !.reason = reason], reply, out)
                /\ calls' = Append(calls, Call("ConfirmRequest", idx, out))
                /\ output' = output \o
                     <<Line("stdout", "Confirming", idx, a.RequestorUserName, EmptyBody)>>
                     \o (IF out.err # Nil
                         THEN <<Line("stdout", "failed!", idx, "", EmptyBody),
                                Line("stderr", "Unable to confirm request", idx, "", EmptyBody)>>
                         ELSE <<Line("stdout", "ok!", idx, "", EmptyBody)>>)
           ELSE /\ output' = Append(output,
                       Line("stdout", "Ignoring", idx, a.RequestorUserName, EmptyBody))
                /\ UNCHANGED <<apiVars, calls>>
    /\ idx' = idx + 1
    /\ pc' = IF idx = Len(incomingRequests) THEN "logout" ELSE "approve"
    /\ UNCHANGED <<flagOperation, flagAllowedCorpKeys, incomingRequests, reqs,
                   exitCode, timeVars>>

\* retrieve, up to its loop.
Retrieve(reply) ==
    /\ pc = "operation"
    /\ flagOperation = "retrieve"
    /\ LET out == MyRequestsOutcome(LogonKey, Base, reply)
       IN  /\ Return("MyRequests", NoArgs, reply, out)
           /\ reqs' = out.ret.mine
           /\ IF out.err # Nil
              THEN /\ output' = Append(output, Say("error"))
                   /\ Exit(1)
              ELSE IF out.ret.mine = <<>>
              THEN /\ output' = Append(output, Say("There are no requests."))
                   /\ Exit(0)
              ELSE /\ pc' = "retrieve"
                   /\ UNCHANGED <<output, exitCode>>
    /\ UNCHANGED <<flagOperation, flagAllowedCorpKeys, incomingRequests, idx,
                   calls, timeVars>>

\* retrieve with the loop left (break) at the first GetPassword that fails.
RetrievePassword_BreaksOnFailure(reply) ==
    /\ pc = "retrieve"
    /\ LET r == reqs[idx]
           out == GetPasswordOutcome(LogonKey, Base, r, reply)
       IN  /\ Return("GetPassword", [NoArgs EXCEPT !.req = r], reply, out)
           /\ calls' = Append(calls, Call("GetPassword", idx, out))
           /\ output' = IF out.err # Nil
                        THEN output
                        ELSE Append(output, Line("stdout", "=", idx, r.Name, out.ret.cred))
           /\ pc' = IF out.err # Nil \/ idx = Len(reqs) THEN "logout" ELSE "retrieve"
    /\ idx' = idx + 1
    /\ UNCHANGED <<flagOperation, flagAllowedCorpKeys, incomingRequests, reqs,
                   exitCode, timeVars>>

\* retrieve: one turn of the loop over reqs.MyRequests.
RetrievePassword(reply) ==
    /\ pc = "retrieve"
    /\ LET r == reqs[idx]
           out == GetPasswordOutcome(LogonKey, Base, r, reply)
       IN  /\ Return("GetPassword", [NoArgs EXCEPT !.req = r], reply, out)
           /\ calls' = Append(calls, Call("GetPassword", idx, out))
           /\ output' = IF out.err # Nil
                        THEN output
                        ELSE Append(output, Line("stdout", "=", idx, r.Name, out.ret.cred))
    /\ idx' = idx + 1
    /\ pc' = IF idx = Len(reqs) THEN "logout" ELSE "retrieve"
    /\ UNCHANGED <<flagOperation, flagAllowedCorpKeys, incomingRequests, reqs,
                   exitCode, timeVars>>

\* main with an operation that is none of list, approve and retrieve.
NoOperation ==
    /\ pc = "operation"
    /\ flagOperation \notin {"list", "approve", "retrieve"}
    /\ pc' = "logout"
    /\ UNCHANGED <<apiVars, timeVars, flagOperation, flagAllowedCorpKeys,
                   incomingRequests, reqs, idx, calls, output, exitCode>>

\* main returns: the deferred logout(&api) runs and the process ends.
DeferredLogout(reply) ==
    /\ pc = "logout"
    /\ LET out == LogoutOutcome(LogonKey, Base, reply)
       IN  /\ Return("Logout", NoArgs, reply, out)
           /\ output' = IF out.err # Nil
                        THEN Append(output, Line("stderr", "Unable to logout", 0, "", EmptyBody))
                        ELSE output
    /\ Exit(0)
    /\ UNCHANGED <<flagOperation, flagAllowedCorpKeys, incomingRequests, reqs,
                   idx, calls, timeVars>>

MainNext ==
    \/ \E u \in Usernames, p \in Passwords, reply \in Replies(LogonBodies) :
          MainLogin(u, p, reply)
    \/ \E reply \in Replies(IncomingBodies) : ListIncoming(reply)
    \/ \E reply \in Replies(IncomingBodies) : ApproveIncoming(reply)
    \/ \E reason \in Reasons, reply \in ItemReplies : ApproveRequest(reason, reply)
    \/ \E reply \in Replies(MyRequestsBodies) : Retrieve(reply)
    \/ \E reply \in ItemReplies : RetrievePassword(reply)
    \/ NoOperation
    \/ \E reply \in LogoffReplies : DeferredLogout(reply)

MainSpec == MainInit /\ [][MainNext]_vars

\* ---------------------------------------------------------------- properties

\* The reply of the last call arrived whole and its body is a JSON object.
Decoded == last.reply.outcome = "ok" /\ last.reply.body.kind = "json"

\* The last call returned NotAuthenticated without issuing a request.
FailedFast == last.err.kind = "NotAuthenticated" /\ last.sent = <<>>

\* C1: a Login whose reply carries a non-empty ErrorCode returns an error
\* and leaves the token as it was before the call (empty if no Login has
\* succeeded before), whatever calls came before.
C1_LoginErrorKeepsToken ==
    (last.op = "Login" /\ Decoded /\ last.reply.body.ErrorCode # "")
        => /\ last.err # Nil
           /\ LogonKey = last.pre.key
           /\ (last.pre.session = "none" => LogonKey = "")

\* A Login is refused with a reply that also carries a token, on a client
\* that holds another token.
C1_Witness ==
    /\ last.op = "Login" /\ Decoded /\ last.reply.body.ErrorCode # ""
    /\ last.reply.body.CyberArkLogonResult = "tok2"
    /\ last.pre.key = "tok1"
    /\ LogonKey = "tok1"
    /\ last.err.kind = "AuthenticationFailed"

\* C2: a Login whose reply decodes with an empty ErrorCode returns no error
\* and the token is then exactly the reply's CyberArkLogonResult, replacing
\* the token held before.
C2_LoginStoresToken ==
    (last.op = "Login" /\ Decoded /\ last.reply.body.ErrorCode = "")
        => /\ last.err = Nil
           /\ LogonKey = last.reply.body.CyberArkLogonResult

\* A Login replaces the token held with another, from a reply whose status
\* is not 200.
C2_Witness ==
    /\ last.op = "Login" /\ Decoded /\ last.reply.body.ErrorCode = ""
    /\ last.reply.status = 500
    /\ last.pre.key = "tok1"
    /\ last.reply.body.CyberArkLogonResult = "tok2"
    /\ LogonKey = "tok2"
    /\ last.err = Nil

\* C3: right after a Login that returned no error the token is a non-empty
\* string, for every reply the server may send.
C3_TokenNonEmptyAfterLogin ==
    (last.op = "Login" /\ last.err = Nil) => LogonKey # ""

\* C4: IncomingRequests called while the token is empty returns
\* NotAuthenticated and issues no HTTP request.
C4_IncomingNeedsToken ==
    (last.op = "IncomingRequests" /\ last.pre.key = "") => FailedFast

\* IncomingRequests is called with an empty token, on a client whose Login
\* has returned nil.
C4_Witness ==
    /\ last.op = "IncomingRequests" /\ last.pre.key = ""
    /\ last.pre.session = "open"
    /\ FailedFast

\* C5: Logout on a client on which no Login has succeeded returns
\* NotAuthenticated and issues no request to the logoff endpoint.
C5_LogoutBeforeLogin ==
    (last.op = "Logout" /\ last.pre.session = "none") => FailedFast

\* Logout is called before any Login has returned nil.
C5_Witness ==
    /\ last.op = "Logout" /\ last.pre.session = "none"
    /\ FailedFast

\* C6 as stated: after a Logout that returned no error, a second Logout with
\* no Login in between fails with NotAuthenticated and sends no second
\* logoff request.
C6_SecondLogoutFailsFast ==
    (last.op = "Logout" /\ last.pre.session = "closed") => FailedFast

\* C6, amended: after a Logout that returned no error, a second Logout with
\* no successful Login in between finds the token still held, sends another
\* logoff request carrying it, and fails only when the transport fails.
C6_SecondLogoutSendsAgain ==
    (last.op = "Logout" /\ last.pre.session = "closed")
        => /\ last.pre.key # ""
           /\ Len(last.sent) = 1
           /\ last.sent[1].url.path = LogoffPath
           /\ last.sent[1].auth = <<last.pre.key>>
           /\ (last.err = Nil <=> last.reply.outcome # "fail")
           /\ last.err.kind \in {"nil", "TransportError"}

\* A second Logout follows a Logout that returned nil, and returns nil too.
C6_Witness ==
    /\ last.op = "Logout" /\ last.pre.session = "closed"
    /\ last.err = Nil
    /\ Len(last.sent) = 1

\* C7: when the reply to MyRequests is a JSON envelope whose ErrorCode is
\* non-empty, MyRequests returns a RemoteError carrying that code and
\* message, and no request list, even with status 200.
C7_MyRequestsRemoteError ==
    (last.op = "MyRequests" /\ Decoded /\ last.reply.body.ErrorCode # "")
        => /\ last.err = Err("RemoteError", last.reply.body.ErrorCode,
                             last.reply.body.ErrorMessage)
           /\ last.ret.mine = <<>>

\* C8: ConfirmRequest returns success only for status 200: for a reply with
\* any other status it returns an error, a RemoteError with the decoded code
\* and message when the body decodes, a DecodeError when it does not.
C8_ConfirmOnly200 ==
    (last.op = "ConfirmRequest" /\ last.reply.outcome = "ok"
        /\ last.reply.status # 200)
        => /\ last.err # Nil
           /\ (last.reply.body.kind = "json"
                 => last.err = Err("RemoteError", last.reply.body.ErrorCode,
                                   last.reply.body.ErrorMessage))
           /\ (last.reply.body.kind # "json" => last.err.kind = "DecodeError")

\* C9: when the vault answers a ConfirmRequest with status 200, it returns
\* no error whatever the body is (empty, malformed, unreadable, or JSON with
\* an error code).
C9_Confirm200Succeeds ==
    (last.op = "ConfirmRequest" /\ last.reply.outcome \in {"ok", "readfail"}
        /\ last.reply.status = 200)
        => last.err = Nil

\* A ConfirmRequest is answered 200 with a body that carries an error code.
C9_Witness ==
    /\ last.op = "ConfirmRequest" /\ Decoded
    /\ last.reply.status = 200
    /\ last.reply.body.ErrorCode # ""
    /\ last.err = Nil

\* C10: MyRequests, ConfirmRequest and GetPassword, called with an empty or
\* invalid token and rejected by the server with an HTTP error status and an
\* error body, return a RemoteError; GetPassword does not return the body of
\* the rejected call as a credential.
C10_RejectedCallFails ==
    (/\ last.op \in {"MyRequests", "ConfirmRequest", "GetPassword"}
     /\ (last.pre.key = "" \/ last.pre.session # "open")
     /\ Decoded /\ last.reply.status \in {403, 500}
     /\ last.reply.body.ErrorCode # "")
        => /\ last.err.kind = "RemoteError"
           /\ last.ret.cred = EmptyBody

\* The methods other than Login.
OtherMethods ==
    {"Logout", "IncomingRequests", "ConfirmRequest", "MyRequests", "GetPassword"}

\* C11: IncomingRequests returns an empty list without an error only when
\* the vault reported zero waiting requests; every failed fetch (transport
\* failure, undecodable body, or a reply that rejects the call with an error
\* status and an error-code body) returns an error.
C11_EmptyListIsNotAFailure ==
    (last.op = "IncomingRequests" /\ last.sent # <<>>)
        => /\ (last.reply.outcome # "ok" => last.err # Nil)
           /\ (last.reply.body.kind # "json" => last.err # Nil)
           /\ ((last.reply.status # 200 /\ last.reply.body.ErrorCode # "")
                 => last.err # Nil)
           /\ ((last.err = Nil /\ last.ret.incoming = <<>>)
                 => /\ Decoded /\ last.reply.status = 200
                    /\ last.reply.body.ErrorCode = "")

\* C16: after any sequence of calls that have all returned, no response body
\* is still open.
C16_NoBodyLeftOpen == openBodies = 0

\* C19: only Login changes the token: a call of any other method, whether it
\* succeeds or fails, leaves LogonKey and Base as they were, and a Logout
\* that returns nil leaves the token non-empty.
C19_OnlyLoginChangesToken ==
    [][(last'.op \in OtherMethods)
         => /\ LogonKey' = LogonKey
            /\ Base' = Base
            /\ ((last'.op = "Logout" /\ last'.err = Nil) => LogonKey' # "")]_vars

\* A Logout has returned nil on an open session and the token is still held.
C19_Witness ==
    /\ last.op = "Logout" /\ last.err = Nil
    /\ last.pre.session = "open"
    /\ last.pre.key = "tok2"
    /\ LogonKey = "tok2"

\* C20: every request issued by a method other than Login, on a client whose
\* Login has succeeded, carries one Authorization header whose value is the
\* token stored by the most recent successful Login, with no prefix; the
\* request of Login carries no Authorization header.
C20_AuthorizationIsToken ==
    /\ (last.op = "Login") => \A i \in DOMAIN last.sent : last.sent[i].auth = <<>>
    /\ (last.op \in OtherMethods /\ last.pre.session # "none")
          => \A i \in DOMAIN last.sent : last.sent[i].auth = <<granted>>

\* A ConfirmRequest is sent after a second Login replaced the first token.
C20_Witness ==
    /\ last.op = "ConfirmRequest"
    /\ Len(last.sent) = 1
    /\ granted = "tok2"
    /\ last.sent[1].auth = <<"tok2">>
    /\ last.sent[1].method = "POST"


\* ---------------------------------------------------------------- properties of main

IsCredential(line) == line.what = "="
Succeeded(call) == ~call.failed

\* The calls made so far are one per item, in the order of the list.
OneCallPerItem(op) ==
    /\ Len(calls) = idx - 1
    /\ \A k \in DOMAIN calls : calls[k].i = k /\ calls[k].op = op

\* C12: in the batch retrieval over the N requests MyRequests returned, a
\* GetPassword that fails does not stop the batch: GetPassword is called for
\* every request, once and in listing order, and a result is printed for
\* exactly the requests whose fetch succeeded, in listing order.
C12_BatchSkipsFailures ==
    (flagOperation = "retrieve")
        => /\ OneCallPerItem("GetPassword")
           /\ (pc \in {"logout", "exited"} /\ reqs # <<>>) => idx = Len(reqs) + 1
           /\ LET printed == SelectSeq(output, IsCredential)
                  fetched == SelectSeq(calls, Succeeded)
              IN  /\ Len(printed) = Len(fetched)
                  /\ \A k \in DOMAIN printed :
                        /\ printed[k].i = fetched[k].i
                        /\ printed[k].name = reqs[printed[k].i].Name

\* Of two requests the first fetch failed and the second was printed.
C12_Witness ==
    /\ flagOperation = "retrieve" /\ pc = "exited"
    /\ Len(reqs) = 2 /\ Len(calls) = 2
    /\ calls[1].failed /\ ~calls[2].failed
    /\ Len(output) = 1 /\ output[1].what = "=" /\ output[1].i = 2

\* Two characters are the same letter, whatever their case.
SameLetter(c, d) ==
    \/ c = d
    \/ \E k \in DOMAIN LowerLetters : {c, d} = {LowerLetters[k], UpperLetters[k]}

\* Two names are equal when compared case-insensitively.
EqualFold(x, y) ==
    /\ Len(x) = Len(y)
    /\ \A k \in DOMAIN x : SameLetter(x[k], y[k])

\* The allow-set the caller gave: the comma-separated entries, the blanks
\* around each removed.
AllowSet ==
    LET parts == Split(Trim(flagAllowedCorpKeys), ",")
    IN  {Trim(parts[k]) : k \in DOMAIN parts}

\* The requestor of item k equals an entry of the allow-set, case ignored.
AllowListed(k) ==
    \E entry \in AllowSet :
        EqualFold(Runes(incomingRequests[k].RequestorUserName), entry)

ConfirmCalls(k) == {j \in DOMAIN calls : calls[j].i = k}

C14_FailedConfirmDoesNotStop ==
    (flagOperation = "approve" /\ incomingRequests # <<>>)
        => /\ (pc = "approve") => (exitCode = 0 - 1 /\ idx <= Len(incomingRequests))
           /\ (pc \in {"logout", "exited"}) => idx = Len(incomingRequests) + 1
           /\ (pc = "exited") => exitCode = 0
           /\ \A j \in DOMAIN calls :
                 calls[j].failed
                     => \A k \in (calls[j].i + 1)..(idx - 1) :
                           AllowListed(k) => ConfirmCalls(k) # {}

\* The first confirmation failed, the second was made and went through.
C14_Witness ==
    /\ flagOperation = "approve" /\ pc = "exited"
    /\ Len(calls) = 2
    /\ calls[1].failed /\ ~calls[2].failed
    /\ calls[2].i = 2
    /\ exitCode = 0

\* C18: every run in which Login succeeds ends with a Logout: a logoff
\* request is issued after the selected operation and before the process
\* terminates, whatever the operation returns.
C18_LogoutBeforeExit ==
    (pc = "exited" /\ session # "none")
        => /\ last.op = "Logout"
           /\ Len(last.sent) = 1
           /\ last.sent[1].url.path = LogoffPath

====
